---- MODULE Spec2Model ----
(***************************************************************************)
(* Model of src/extractor/auth_user.rs: the AuthenticatedUser<T> request   *)
(* extractor.  get_claims reshapes a ClaimsSet<Value> into a caller-chosen *)
(* struct T by a serde_json round trip (to_value, then from_value), and    *)
(* from_request pairs the result with the raw token of the request.        *)
(***************************************************************************)
EXTENDS Integers, Sequences, FiniteSets, TLC

\* ------------------------------------------------------------------ bounds

\* Requests in flight at the same time.
NumRequests == 2
\* Longest JSON array / Vec<String> in a claim document.
MaxArrLen == 1

\* ------------------------------------------------------------ JSON values

\* A serde_json::Value is a record [k |-> kind, v |-> content].
JNull == [k |-> "null", v |-> 0]
JStr(s) == [k |-> "str", v |-> s]
JNum(n) == [k |-> "num", v |-> n]
JBool(b) == [k |-> "bool", v |-> b]
JArr(a) == [k |-> "arr", v |-> a]

Strs == {"admin", "x"}
Nums == {0, 1}

SeqUpTo(S, n) == UNION {[1 .. m -> S] : m \in 0 .. n}

\* Scalars, and arrays of scalars.
JScalars ==
    {JNull} \cup {JStr(s) : s \in Strs} \cup {JNum(n) : n \in Nums}
        \cup {JBool(b) : b \in BOOLEAN}
JStrArrs == {JArr(a) : a \in SeqUpTo({JStr(s) : s \in Strs}, MaxArrLen)}
JNumArrs == {JArr(a) : a \in SeqUpTo({JNum(0)}, MaxArrLen) \ {<<>>}}
JValues == JScalars \cup JStrArrs \cup JNumArrs

\* ------------------------------------------------------------ Rust values

\* Values of the Rust types a claims struct is built from.
RNone == [k |-> "None", v |-> 0]
RString(s) == [k |-> "String", v |-> s]
RI64(n) == [k |-> "i64", v |-> n]
RBool(b) == [k |-> "bool", v |-> b]
RVec(a) == [k |-> "Vec", v |-> a]
\* biscuit::SingleOrMultiple<String>
RSingle(s) == [k |-> "Single", v |-> s]
RMultiple(a) == [k |-> "Multiple", v |-> a]

\* ------------------------------------------------------------- ClaimsSet

\* Option<X>: None, or Some of a value of Xs.
OptOf(Xs) == {RNone} \cup {[k |-> "Some", v |-> x] : x \in Xs}
Some(x) == [k |-> "Some", v |-> x]

\* The registered claims of a biscuit::ClaimsSet that the model carries.
RegisteredKeys == {"iss", "sub", "aud", "exp"}
\* The keys of the private claims (a serde_json::Value object).  Deserializing
\* a ClaimsSet hands the registered keys to `registered`, so the private
\* object never holds one of them.
PrivateKeys == {"name", "email", "extra"}

StrVecs == SeqUpTo(Strs, MaxArrLen)
Auds == {RSingle(s) : s \in Strs} \cup {RMultiple(a) : a \in StrVecs}

RegisteredClaims ==
    [iss : OptOf({RString("x")}), sub : OptOf({RString("x")}),
     aud : OptOf(Auds), exp : OptOf({RI64(1)})]

\* All objects with keys among Keys and values among Vals.
Objects(Keys, Vals) == UNION {[D -> Vals] : D \in SUBSET Keys}

ClaimsSets ==
    [registered : RegisteredClaims, private : Objects(PrivateKeys, JValues)]

\* Serialize for one registered claim: Timestamp as a number, a single
\* audience as a string, several as an array.
RegToJson(r) ==
    CASE r.k = "String" -> JStr(r.v)
      [] r.k = "i64" -> JNum(r.v)
      [] r.k = "Single" -> JStr(r.v)
      [] r.k = "Multiple" -> JArr([i \in DOMAIN r.v |-> JStr(r.v[i])])

\* serde_json::to_value(claims_set): the registered claims that are Some,
\* then the private object flattened into the same map.
to_value(claims_set) ==
    LET reg == claims_set.registered
        priv == claims_set.private
        present == {key \in RegisteredKeys : reg[key].k = "Some"}
    IN  [key \in present \cup DOMAIN priv |->
            IF key \in DOMAIN priv THEN priv[key] ELSE RegToJson(reg[key].v)]

\* ---------------------------------------------------------- claims shapes

\* A claims struct T is the sequence of its fields: name, Rust type, and
\* whether the type is wrapped in Option.
Field(name, ty, opt) == [name |-> name, ty |-> ty, opt |-> opt]

FoundClaims ==
    << Field("iss", "String", FALSE),
       Field("sub", "String", FALSE),
       Field("aud", "VecString", FALSE),
       Field("name", "String", FALSE),
       Field("email", "String", TRUE),
       Field("email_verified", "bool", TRUE) >>

\* A second struct an integrator may declare (T is any Deserialize type): a
\* numeric claim and an optional sequence.
SessionClaims ==
    << Field("sub", "String", FALSE),
       Field("exp", "i64", FALSE),
       Field("extra", "VecString", TRUE) >>

Shapes == {FoundClaims, SessionClaims}

FieldNames(T) == {T[i].name : i \in DOMAIN T}
FieldOf(T, name) == T[CHOOSE i \in DOMAIN T : T[i].name = name]

\* ------------------------------------------------------------- from_value

Ok(v) == [ok |-> TRUE, v |-> v, field |-> "", why |-> ""]
Err(field, why) == [ok |-> FALSE, v |-> RNone, field |-> field, why |-> why]

\* DeType with a sequence read short of its last element.
DeType_truncating(ty, j) ==
    CASE ty = "String" ->
            IF j.k = "str" THEN Ok(RString(j.v)) ELSE Err("", "invalid type")
      [] ty = "i64" ->
            IF j.k = "num" THEN Ok(RI64(j.v)) ELSE Err("", "invalid type")
      [] ty = "bool" ->
            IF j.k = "bool" THEN Ok(RBool(j.v)) ELSE Err("", "invalid type")
      [] ty = "VecString" ->
            IF j.k = "arr" /\ \A i \in DOMAIN j.v : j.v[i].k = "str"
            THEN Ok(RVec([i \in 1 .. (Len(j.v) - 1) |-> j.v[i].v]))
            ELSE Err("", "invalid type")

\* Deserialize one Rust type from a JSON value.
DeType(ty, j) ==
    CASE ty = "String" ->
            IF j.k = "str" THEN Ok(RString(j.v)) ELSE Err("", "invalid type")
      [] ty = "i64" ->
            IF j.k = "num" THEN Ok(RI64(j.v)) ELSE Err("", "invalid type")
      [] ty = "bool" ->
            IF j.k = "bool" THEN Ok(RBool(j.v)) ELSE Err("", "invalid type")
      [] ty = "VecString" ->
            IF j.k = "arr" /\ \A i \in DOMAIN j.v : j.v[i].k = "str"
            THEN Ok(RVec([i \in DOMAIN j.v |-> j.v[i].v]))
            ELSE Err("", "invalid type")

\* DeField with null not accepted for an Option.
DeField_strict(f, j) ==
    LET r == DeType(f.ty, j)
    IN  IF ~r.ok THEN Err(f.name, r.why)
        ELSE IF f.opt THEN Ok(Some(r.v)) ELSE r

\* Deserialize a declared field from the value found under its key:
\* Option<X> takes null as None and anything else as Some(X).
DeField(f, j) ==
    IF f.opt
    THEN IF j.k = "null" THEN Ok(RNone)
         ELSE LET r == DeType(f.ty, j)
              IN  IF r.ok THEN Ok(Some(r.v)) ELSE Err(f.name, r.why)
    ELSE LET r == DeType(f.ty, j)
         IN  IF r.ok THEN r ELSE Err(f.name, r.why)

\* The map of a JSON object is walked in key order.
KeyOrder ==
    << "aud", "email", "email_verified", "exp", "extra", "iss", "name", "sub" >>
KeyIndex(key) == CHOOSE i \in DOMAIN KeyOrder : KeyOrder[i] = key
Lowest(S) == CHOOSE i \in S : \A j \in S : i <= j

\* The derived Deserialize of a struct T, visiting a JSON object: every
\* entry whose key T declares is deserialized as it is met, the others are
\* ignored; once the map is exhausted a field that was never met is None
\* when it is an Option and a "missing field" error otherwise.
visit_map(T, json_value) ==
    LET declared == FieldNames(T) \cap DOMAIN json_value
        bad == {key \in declared :
                    ~DeField(FieldOf(T, key), json_value[key]).ok}
        missing == {i \in DOMAIN T :
                    T[i].name \notin DOMAIN json_value /\ ~T[i].opt}
    IN  IF bad # {}
        THEN LET key == KeyOrder[Lowest({KeyIndex(b) : b \in bad})]
             IN  DeField(FieldOf(T, key), json_value[key])
        ELSE IF missing # {}
        THEN Err(T[Lowest(missing)].name, "missing field")
        ELSE Ok([name \in FieldNames(T) |->
                    IF name \in DOMAIN json_value
                    THEN DeField(FieldOf(T, name), json_value[name]).v
                    ELSE RNone])

\* from_value as if T were declared with deny_unknown_fields.
from_value_deny_unknown(T, json_value) ==
    IF DOMAIN json_value \subseteq FieldNames(T)
    THEN visit_map(T, json_value)
    ELSE Err("", "unknown field")

\* serde_json::from_value::<T>(json_value)
from_value(T, json_value) == visit_map(T, json_value)

\* ------------------------------------------------------------- get_claims

Returned(v) == [k |-> "Returned", v |-> v]
Panicked == [k |-> "Panicked", v |-> RNone]

\* Result::unwrap: the value of an Ok, a panic on an Err.
unwrap(res) == IF res.ok THEN Returned(res.v) ELSE Panicked

\* AuthenticatedUser::<T>::get_claims(&claims_set): to_value cannot fail on
\* a ClaimsSet whose private claims are an object, from_value can.
get_claims(T, claims_set) ==
    LET json_value == to_value(claims_set)
    IN  unwrap(from_value(T, json_value))

\* ---------------------------------------------------------------- requests

Requests == 1 .. NumRequests

\* Encoded tokens a request may carry, and the claims the upstream verifier
\* decodes from each.
Tokens == {"jwt_admin", "jwt_single"}
NoCredential == ""

Registered(iss, sub, aud, exp) ==
    [iss |-> iss, sub |-> sub, aud |-> aud, exp |-> exp]

Decode(token) ==
    CASE token = "jwt_admin" ->
            [registered |->
                Registered(Some(RString("x")), Some(RString("x")),
                           Some(RMultiple(<<"x">>)), Some(RI64(1))),
             private |-> ("name" :> JStr("admin") @@ "email" :> JNull)]
      [] token = "jwt_single" ->
            [registered |->
                Registered(Some(RString("x")), Some(RString("x")),
                           Some(RSingle("x")), Some(RI64(1))),
             private |-> ("name" :> JStr("x"))]

\* Handler parameters (extractors).
AuthenticatedUser(T) == [k |-> "AuthenticatedUser", T |-> T]
Json == [k |-> "Json", T |-> <<>>]

Routes ==
    {"GET /authenticated_user", "POST /authenticated_user", "GET /no_user",
     "GET /sessions"}

\* Params with an identity parameter on every handler.
Params_identity_everywhere(route) ==
    CASE route = "GET /authenticated_user" ->
            << AuthenticatedUser(FoundClaims) >>
      [] route = "POST /authenticated_user" ->
            << AuthenticatedUser(FoundClaims), Json >>
      [] route = "GET /no_user" -> << AuthenticatedUser(FoundClaims) >>
      [] route = "GET /sessions" ->
            << AuthenticatedUser(FoundClaims), AuthenticatedUser(SessionClaims) >>

\* The parameter list of the handler of each route.  The last one is a
\* handler with two identity parameters of different claims structs.
Params(route) ==
    CASE route = "GET /authenticated_user" ->
            << AuthenticatedUser(FoundClaims) >>
      [] route = "POST /authenticated_user" ->
            << AuthenticatedUser(FoundClaims), Json >>
      [] route = "GET /no_user" -> << >>
      [] route = "GET /sessions" ->
            << AuthenticatedUser(FoundClaims), AuthenticatedUser(SessionClaims) >>

\* Request bodies: the empty JSON object, and bytes that are not JSON.
Bodies == {"{}", "x"}
BodiesOf(route) == IF route = "POST /authenticated_user" THEN Bodies ELSE {""}

RequestInputs ==
    UNION {[route : {route}, credential : {NoCredential} \cup Tokens,
            body : BodiesOf(route)] : route \in Routes}

\* The inputs in a fixed order.  Requests are interchangeable, so they are
\* numbered in the order of their inputs: every combination of inputs is
\* covered once instead of once per numbering.
RECURSIVE SeqOf(_)
SeqOf(S) ==
    IF S = {} THEN << >>
    ELSE LET x == CHOOSE y \in S : TRUE IN << x >> \o SeqOf(S \ {x})
InputList == SeqOf(RequestInputs)
InputChoices ==
    {f \in [Requests -> DOMAIN InputList] :
        \A r1, r2 \in Requests : r1 <= r2 => f[r1] <= f[r2]}

\* actix_web::dev::Payload: the unread body stream, or Payload::None once
\* taken.
Stream(body) == [k |-> "Stream", v |-> body]
PayloadNone == [k |-> "None", v |-> ""]

\* The verified-token context of a request (DecodedInfo), when attached.
NoContext == [k |-> "NoContext", jwt |-> "", payload |-> RNone]
DecodedInfo(jwt, claims_set) ==
    [k |-> "DecodedInfo", jwt |-> jwt, payload |-> claims_set]

\* States of the future an extractor returns.
NotCalled == [k |-> "NotCalled", v |-> RNone]
Pending == [k |-> "Pending", v |-> RNone]
ReadyOk(v) == [k |-> "Ok", v |-> v]
ReadyErr(e) == [k |-> "Err", v |-> e]

Unauthenticated == "No token found or token is not authorized"
JsonPayloadError == "Json deserialize error"
\* A response body is the sequence of the pieces it is formatted from.
NoResponse == [k |-> "NoResponse", v |-> << >>]
Body(text) == [k |-> "Body", v |-> text]
\* The handler task unwound by a panic: no response is produced.
Aborted == [k |-> "Aborted", v |-> << >>]

VARIABLES
    request,     \* the inbound requests: route, credential, body
    extensions,  \* per request: the context the upstream verifier attached
    payload,     \* per request: the body stream
    futures,     \* per request and handler parameter: the extractor's future
    response,    \* per request: what the handler task ended in
    conv         \* a get_claims call on its own: T, claims_set, outcome

vars == << request, extensions, payload, futures, response, conv >>

NotRun == [k |-> "NotRun", v |-> RNone]
ConvIdle == [T |-> <<>>, claims_set |-> RNone, out |-> NotRun]

Init ==
    /\ \E f \in InputChoices : request = [r \in Requests |-> InputList[f[r]]]
    /\ extensions = [r \in Requests |-> NoContext]
    /\ payload = [r \in Requests |-> Stream(request[r].body)]
    /\ futures =
          [r \in Requests |->
              [i \in DOMAIN Params(request[r].route) |-> NotCalled]]
    /\ response = [r \in Requests |-> NoResponse]
    /\ conv = ConvIdle

\* The upstream verifier attaches the context of a request that carries a
\* credential.
Verifier(r) ==
    /\ response[r] = NoResponse
    /\ request[r].credential # NoCredential
    /\ extensions[r] = NoContext
    /\ extensions' =
          [extensions EXCEPT
              ![r] = DecodedInfo(request[r].credential,
                                 Decode(request[r].credential))]
    /\ UNCHANGED << request, payload, futures, response, conv >>

\* DecodedInfo::from_request(&req_local, &mut payload_local).await: the
\* context attached to the request, or the Unauthenticated error.
DecodedInfo_from_request(req_extensions) ==
    IF req_extensions = NoContext
    THEN ReadyErr(Unauthenticated)
    ELSE ReadyOk(req_extensions)

\* from_request handing the request's own payload on, where it is taken.
from_request_taking(r, i) ==
    /\ response[r] = NoResponse
    /\ i \in DOMAIN futures[r]
    /\ Params(request[r].route)[i].k = "AuthenticatedUser"
    /\ futures[r][i] = NotCalled
    /\ futures' = [futures EXCEPT ![r][i] = Pending]
    /\ payload' = [payload EXCEPT ![r] = PayloadNone]
    /\ UNCHANGED << request, extensions, response, conv >>

\* AuthenticatedUser::<T>::from_request(req, _): clones the request and
\* returns the future; the payload argument is left alone.
from_request(r, i) ==
    /\ response[r] = NoResponse
    /\ i \in DOMAIN futures[r]
    /\ Params(request[r].route)[i].k = "AuthenticatedUser"
    /\ futures[r][i] = NotCalled
    /\ futures' = [futures EXCEPT ![r][i] = Pending]
    /\ UNCHANGED << request, extensions, payload, response, conv >>

\* async_block with the token read from a slot shared by all requests.
async_block_crossed(r, T) ==
    LET decoded_info == DecodedInfo_from_request(extensions[r])
        others == {q \in Requests : q # r /\ extensions[q] # NoContext}
        slot == IF others = {} THEN r ELSE CHOOSE q \in others : TRUE
    IN  IF decoded_info.k = "Err"
        THEN decoded_info
        ELSE LET claims == get_claims(T, decoded_info.v.payload)
             IN  IF claims = Panicked
                 THEN Panicked
                 ELSE ReadyOk([jwt |-> extensions[slot].jwt,
                               claims |-> claims.v])

\* async_block with a missing context defaulted instead of propagated.
async_block_defaulting(r, T) ==
    LET decoded_info == DecodedInfo_from_request(extensions[r])
    IN  IF decoded_info.k = "Err"
        THEN ReadyOk([jwt |-> "", claims |-> [name \in FieldNames(T) |-> RNone]])
        ELSE LET claims == get_claims(T, decoded_info.v.payload)
             IN  IF claims = Panicked
                 THEN Panicked
                 ELSE ReadyOk([jwt |-> decoded_info.v.jwt,
                               claims |-> claims.v])

\* What the async block of from_request resolves to for request r and
\* claims struct T.
async_block(r, T) ==
    LET decoded_info == DecodedInfo_from_request(extensions[r])
    IN  IF decoded_info.k = "Err"
        THEN decoded_info
        ELSE LET claims == get_claims(T, decoded_info.v.payload)
             IN  IF claims = Panicked
                 THEN Panicked
                 ELSE ReadyOk([jwt |-> decoded_info.v.jwt,
                               claims |-> claims.v])

\* poll with the context removed from the request once it is read.
poll_consuming(r, i) ==
    /\ response[r] = NoResponse
    /\ i \in DOMAIN futures[r]
    /\ Params(request[r].route)[i].k = "AuthenticatedUser"
    /\ futures[r][i] = Pending
    /\ LET out == async_block(r, Params(request[r].route)[i].T)
       IN  /\ futures' = [futures EXCEPT ![r][i] = out]
           /\ response' =
                 IF out = Panicked
                 THEN [response EXCEPT ![r] = Aborted]
                 ELSE response
    /\ extensions' = [extensions EXCEPT ![r] = NoContext]
    /\ UNCHANGED << request, payload, conv >>

\* The framework polls the future of an identity parameter.
poll(r, i) ==
    /\ response[r] = NoResponse
    /\ i \in DOMAIN futures[r]
    /\ Params(request[r].route)[i].k = "AuthenticatedUser"
    /\ futures[r][i] = Pending
    /\ LET out == async_block(r, Params(request[r].route)[i].T)
       IN  /\ futures' = [futures EXCEPT ![r][i] = out]
           /\ response' =
                 IF out = Panicked
                 THEN [response EXCEPT ![r] = Aborted]
                 ELSE response
    /\ UNCHANGED << request, extensions, payload, conv >>

\* Json<SomePayload>: SomePayload has no fields, so any JSON object parses.
ParseSomePayload(bytes) ==
    IF bytes = "{}" THEN ReadyOk("SomePayload") ELSE ReadyErr(JsonPayloadError)

\* The body-parsing extractor takes the payload stream and parses what it
\* reads from it.
Json_from_request(r, i) ==
    /\ response[r] = NoResponse
    /\ i \in DOMAIN futures[r]
    /\ Params(request[r].route)[i].k = "Json"
    /\ futures[r][i] = NotCalled
    /\ futures' = [futures EXCEPT ![r][i] = ParseSomePayload(payload[r].v)]
    /\ payload' = [payload EXCEPT ![r] = PayloadNone]
    /\ UNCHANGED << request, extensions, response, conv >>

\* The body of the handler of a route, given the extracted parameters.
HandlerBody(route, args) ==
    IF route = "GET /no_user"
    THEN << "Welcome Anonymous!" >>
    ELSE << "Welcome ", args[1].v.claims["name"].v, "!" >>

\* Once every parameter is extracted the handler runs; the first parameter
\* that failed becomes the response instead.
handler(r) ==
    /\ response[r] = NoResponse
    /\ \A i \in DOMAIN futures[r] : futures[r][i].k \in {"Ok", "Err"}
    /\ LET failed == {i \in DOMAIN futures[r] : futures[r][i].k = "Err"}
       IN  response' =
              [response EXCEPT
                  ![r] = IF failed # {}
                         THEN Body(<< futures[r][Lowest(failed)].v >>)
                         ELSE Body(HandlerBody(request[r].route, futures[r]))]
    /\ UNCHANGED << request, extensions, payload, futures, conv >>

Next ==
    \E r \in Requests :
        \/ Verifier(r)
        \/ handler(r)
        \/ \E i \in 1 .. 2 :
              \/ from_request(r, i)
              \/ poll(r, i)
              \/ Json_from_request(r, i)

Spec == Init /\ [][Next]_vars

\* ------------------------------------------- get_claims on its own inputs

ConvInit ==
    /\ request = [r \in Requests |->
                     [route |-> "GET /no_user", credential |-> NoCredential,
                      body |-> ""]]
    /\ extensions = [r \in Requests |-> NoContext]
    /\ payload = [r \in Requests |-> Stream("")]
    /\ futures = [r \in Requests |-> << >>]
    /\ response = [r \in Requests |-> NoResponse]
    /\ conv \in [T : Shapes, claims_set : ClaimsSets, out : {NotRun}]

GetClaims ==
    /\ conv.out = NotRun
    /\ conv' = [conv EXCEPT !.out = get_claims(conv.T, conv.claims_set)]
    /\ UNCHANGED << request, extensions, payload, futures, response >>

ConvNext == GetClaims

ConvSpec == ConvInit /\ [][ConvNext]_vars

\* ------------------------------------------------------------- properties

\* The claim document of a ClaimsSet, and what it means for a declared
\* field to be present in it with the kind its type expects.
Doc(claims_set) == to_value(claims_set)

KindMatches(ty, j) ==
    \/ ty = "String" /\ j.k = "str"
    \/ ty = "i64" /\ j.k = "num"
    \/ ty = "bool" /\ j.k = "bool"
    \/ ty = "VecString" /\ j.k = "arr" /\ \A i \in DOMAIN j.v : j.v[i].k = "str"

Matches(f, d) == f.name \in DOMAIN d /\ KindMatches(f.ty, d[f.name])
Empty(f, d) == f.name \notin DOMAIN d \/ d[f.name] = JNull

RequiredOk(T, d) == \A i \in DOMAIN T : ~T[i].opt => Matches(T[i], d)
OptionalOk(T, d) ==
    \A i \in DOMAIN T : T[i].opt => (Empty(T[i], d) \/ Matches(T[i], d))
OptionalEmpty(T, d) == \A i \in DOMAIN T : T[i].opt => Empty(T[i], d)

\* A Rust value written back as the JSON value it stands for.
EncodeBase(x) ==
    CASE x.k = "String" -> JStr(x.v)
      [] x.k = "i64" -> JNum(x.v)
      [] x.k = "bool" -> JBool(x.v)
      [] x.k = "Vec" -> JArr([i \in DOMAIN x.v |-> JStr(x.v[i])])
      [] x.k = "None" -> JNull
Encode(x) == IF x.k = "Some" THEN EncodeBase(x.v) ELSE EncodeBase(x)

\* The converted field equals the value the document holds for it.
Faithful(f, d, claims) ==
    IF Empty(f, d)
    THEN claims[f.name] = RNone
    ELSE /\ Encode(claims[f.name]) = d[f.name]
         /\ f.opt <=> claims[f.name].k = "Some"

ConvDone == conv.out # NotRun
ConvDoc == Doc(conv.claims_set)

IdentityParam(r, i) == Params(request[r].route)[i].k = "AuthenticatedUser"
JsonParam(r, i) == Params(request[r].route)[i].k = "Json"
Resolved(fut) == fut.k \notin {"NotCalled", "Pending"}

\* C1: identity extraction leaves the body stream as it found it: until the
\* body parser of a request runs, the payload is the unread stream of the
\* request's body, whatever the identity extractors of the request have
\* done; and the body parser's result is the parse of the whole body.
C1_BodyUntouched ==
    \A r \in Requests :
        /\ (\A i \in DOMAIN futures[r] : JsonParam(r, i) => futures[r][i] = NotCalled)
              => payload[r] = Stream(request[r].body)
        /\ \A i \in DOMAIN futures[r] :
              (JsonParam(r, i) /\ futures[r][i] # NotCalled)
                 => futures[r][i] = ParseSomePayload(request[r].body)

\* One request whose identity was extracted first and whose body is still
\* the unread stream, and another with body {} whose identity and body were
\* both extracted and which was answered "Welcome admin!".
C1_Witness ==
    \E r1, r2 \in Requests :
        /\ request[r1].body = "{}" /\ request[r2].body = "{}"
        /\ futures[r1][1].k = "Ok" /\ futures[r1][2] = NotCalled
        /\ payload[r1] = Stream("{}")
        /\ futures[r2][1].k = "Ok" /\ futures[r2][2] = ReadyOk("SomePayload")
        /\ response[r2] = Body(<< "Welcome ", "admin", "!" >>)

\* C2: whenever the future of an identity parameter resolves while the
\* request has no context attached, it resolves to the Unauthenticated
\* error, and the handler task goes on (no identity, no conversion).
C2_NoContextUnauthenticated ==
    [][\A r \in Requests : \A i \in DOMAIN futures[r] :
          (/\ IdentityParam(r, i)
           /\ futures[r][i] = Pending
           /\ futures'[r][i] # Pending
           /\ extensions[r] = NoContext)
             => /\ futures'[r][i] = ReadyErr(Unauthenticated)
                /\ response'[r] = NoResponse]_vars

\* A request that carries a credential, polled before the verifier
\* published its context, and answered with the Unauthenticated message.
C2_Witness ==
    \E r \in Requests :
        /\ request[r].credential # NoCredential
        /\ request[r].route = "GET /authenticated_user"
        /\ futures[r][1] = ReadyErr(Unauthenticated)
        /\ response[r] = Body(<< Unauthenticated >>)

\* C3: when a required field of T is missing from the claim document or has
\* the wrong kind, the conversion ends in a ClaimsShapeMismatch failure that
\* names a field T declares.
C3_ShapeMismatchReported ==
    (ConvDone /\ ~RequiredOk(conv.T, ConvDoc))
        => /\ conv.out.k = "ClaimsShapeMismatch"
           /\ conv.out.v \in FieldNames(conv.T)

\* C4: every extraction ends in an identity, Unauthenticated or
\* ClaimsShapeMismatch: no future ends in a panic and no handler task is
\* aborted.
C4_NoAbort ==
    \A r \in Requests :
        /\ response[r] # Aborted
        /\ \A i \in DOMAIN futures[r] : futures[r][i] # Panicked

\* C5 as stated: whenever every required field of T is present with the
\* matching kind, the conversion succeeds and every declared field equals
\* the document's value.
C5_Original ==
    (ConvDone /\ RequiredOk(conv.T, ConvDoc))
        => /\ conv.out.k = "Returned"
           /\ \A i \in DOMAIN conv.T : Faithful(conv.T[i], ConvDoc, conv.out.v)

\* C5 (amended): whenever every required field of T is present with the
\* matching kind and every optional field of T is absent, null or present
\* with the matching kind, the conversion succeeds and every declared field
\* equals the document's value.
C5_RoundTrip ==
    (ConvDone /\ RequiredOk(conv.T, ConvDoc) /\ OptionalOk(conv.T, ConvDoc))
        => /\ conv.out.k = "Returned"
           /\ \A i \in DOMAIN conv.T : Faithful(conv.T[i], ConvDoc, conv.out.v)

\* A converted SessionClaims with a number and a non-empty optional array.
C5_Witness ==
    /\ ConvDone
    /\ conv.T = SessionClaims
    /\ conv.out.k = "Returned"
    /\ conv.out.v["exp"] = RI64(1)
    /\ conv.out.v["extra"] = Some(RVec(<< "admin" >>))

\* The document without the keys T does not declare.
Declared(T, d) == [key \in DOMAIN d \cap FieldNames(T) |-> d[key]]

\* C6: the outcome of a conversion is the outcome for the document with the
\* undeclared fields removed, and a converted struct has the declared
\* fields only.
C6_SchemaTolerance ==
    ConvDone
        => /\ conv.out = unwrap(from_value(conv.T, Declared(conv.T, ConvDoc)))
           /\ conv.out.k = "Returned" => DOMAIN conv.out.v = FieldNames(conv.T)

\* A successful conversion of a document with undeclared fields.
C6_Witness ==
    /\ ConvDone
    /\ conv.out.k = "Returned"
    /\ conv.T = FoundClaims
    /\ {"exp", "extra"} \subseteq DOMAIN ConvDoc

\* C7: when the required fields of T are present with the matching kind and
\* every optional field is missing or null, the conversion succeeds with
\* the optional fields empty and the required ones populated.
C7_OptionalMayBeAbsent ==
    (ConvDone /\ RequiredOk(conv.T, ConvDoc) /\ OptionalEmpty(conv.T, ConvDoc))
        => /\ conv.out.k = "Returned"
           /\ \A i \in DOMAIN conv.T :
                 IF conv.T[i].opt
                 THEN conv.out.v[conv.T[i].name] = RNone
                 ELSE conv.out.v[conv.T[i].name] # RNone

\* The claims {iss, sub, aud: [..], name: "admin", email: null} converted to
\* FoundClaims.
C7_Witness ==
    /\ ConvDone
    /\ conv.T = FoundClaims
    /\ conv.claims_set.private = ("name" :> JStr("admin") @@ "email" :> JNull)
    /\ conv.out.k = "Returned"
    /\ conv.out.v["name"] = RString("admin")
    /\ conv.out.v["email"] = RNone

\* C8: every identity produced for a request holds the token of that
\* request's context and the conversion of that context's claims.
C8_TokenClaimsPaired ==
    \A r \in Requests : \A i \in DOMAIN futures[r] :
        (IdentityParam(r, i) /\ futures[r][i].k = "Ok")
            => /\ extensions[r] # NoContext
               /\ futures[r][i].v.jwt = extensions[r].jwt
               /\ futures[r][i].v.jwt = request[r].credential
               /\ Returned(futures[r][i].v.claims) =
                     get_claims(Params(request[r].route)[i].T,
                                extensions[r].payload)

\* Two requests with different tokens, each with an identity.
C8_Witness ==
    \E r1, r2 \in Requests : \E i1 \in DOMAIN futures[r1], i2 \in DOMAIN futures[r2] :
        /\ request[r1].credential # request[r2].credential
        /\ IdentityParam(r1, i1) /\ futures[r1][i1].k = "Ok"
        /\ IdentityParam(r2, i2) /\ futures[r2][i2].k = "Ok"

\* What an identity extraction with T resolves to on its own, for a request
\* whose context is attached.
Alone(T, token) ==
    LET claims == get_claims(T, Decode(token))
    IN  IF claims = Panicked THEN Panicked
        ELSE ReadyOk([jwt |-> token, claims |-> claims.v])

\* C9: the extractions of a request leave its context as the verifier
\* published it, and each one that found the context resolves to what it
\* resolves to alone.
C9_SharedContextReadOnly ==
    \A r \in Requests :
        /\ \/ extensions[r] = NoContext
           \/ /\ request[r].credential # NoCredential
              /\ extensions[r] =
                    DecodedInfo(request[r].credential,
                                Decode(request[r].credential))
        /\ \A i \in DOMAIN futures[r] :
              (IdentityParam(r, i) /\ Resolved(futures[r][i]))
                 => \/ futures[r][i] = ReadyErr(Unauthenticated)
                    \/ /\ extensions[r] # NoContext
                       /\ futures[r][i] =
                             Alone(Params(request[r].route)[i].T,
                                   request[r].credential)

\* Two identity parameters of different claims structs, both extracted from
\* the context of one request.
C9_Witness ==
    \E r \in Requests :
        /\ request[r].route = "GET /sessions"
        /\ futures[r][1].k = "Ok" /\ futures[r][2].k = "Ok"
        /\ futures[r][1].v.claims # futures[r][2].v.claims
        /\ futures[r][1].v.jwt = futures[r][2].v.jwt

\* C10: on the route whose handler declares no identity parameter no
\* extraction is attempted, and the response is the anonymous one with or
\* without a credential.
C10_OptIn ==
    \A r \in Requests :
        request[r].route = "GET /no_user"
            => /\ futures[r] = << >>
               /\ response[r] \in {NoResponse, Body(<< "Welcome Anonymous!" >>)}
               /\ \A q \in Requests :
                     (/\ request[q].route = "GET /no_user"
                      /\ response[q] # NoResponse /\ response[r] # NoResponse)
                        => response[q] = response[r]

\* Two answered requests to that route, one with a verified credential, one
\* with none.
C10_Witness ==
    \E r, q \in Requests :
        /\ request[r].route = "GET /no_user" /\ request[q].route = "GET /no_user"
        /\ extensions[r] # NoContext
        /\ request[q].credential = NoCredential
        /\ response[r] = Body(<< "Welcome Anonymous!" >>)
        /\ response[q] = Body(<< "Welcome Anonymous!" >>)

====
